---- MODULE Spec2Model ----
(***************************************************************************)
(* safe-unix-mcp: the stdio JSON-RPC gateway of src/unnamed/part_000.      *)
(*                                                                         *)
(* The byte stream on stdin is a sequence of pieces: the body of a line    *)
(* (one atomic piece) and the newline that ends it.  A chunk is any run of *)
(* consecutive pieces, so a chunk may end between a body and its newline.  *)
(* The 'data' handler is an async function: it runs without interruption   *)
(* until it awaits a promise that a child process settles; an await of a   *)
(* promise that is already settled resumes in a microtask, before any      *)
(* other event is delivered, and is part of the same step.                 *)
(***************************************************************************)
EXTENDS Integers, Sequences, FiniteSets, TLC

VARIABLES buf, out, procs, crashed, received

vars == <<buf, out, procs, crashed, received>>

(* ------------------------------ bounds --------------------------------- *)

\* lines delivered on stdin in one behaviour of Spec
MaxLines == 4
\* length of a caller-supplied argument vector in SpecDispatch
MaxArgs == 2

(* ------------------------------ helpers -------------------------------- *)

\* String.prototype.startsWith
StartsWith(a, p) == Len(a) >= Len(p) /\ SubSeq(a, 1, Len(p)) = p

IsFlag(a) == StartsWith(a, "-")

Includes(argv, a) == \E k \in DOMAIN argv : argv[k] = a

FORBIDDEN_TOKENS == {"-exec", "-ok", "-delete", "-i", "--in-place"}

\* what a tool's body does: throw, or call run(cmd, args), or (a function
\* that is no tool) return a value that is no promise
Throw(m) == [t |-> "throw", cmd |-> "", args |-> <<>>, msg |-> m]
run(cmd, args) == [t |-> "run", cmd |-> cmd, args |-> args, msg |-> ""]
Value == [t |-> "value", cmd |-> "", args |-> <<>>, msg |-> ""]

\* the index at which a for...of loop over a vector first meets one of S
FirstIndex(S) == CHOOSE k \in S : \A j \in S : k <= j

rejectForbidden_first(argv) ==
  IF argv # <<>> /\ argv[1] \in FORBIDDEN_TOKENS
  THEN <<"forbidden argument: " \o argv[1]>>
  ELSE <<>>

\* <<>> when it returns, <<message>> when it throws
rejectForbidden(argv) ==
  LET hits == {k \in DOMAIN argv : argv[k] \in FORBIDDEN_TOKENS}
  IN IF hits = {} THEN <<>>
     ELSE <<"forbidden argument: " \o argv[FirstIndex(hits)]>>

ensureOnly_first(argv, allowlist) ==
  IF argv # <<>> /\ argv[1] \notin allowlist /\ IsFlag(argv[1])
  THEN <<"flag not allowed here: " \o argv[1]>>
  ELSE <<>>

ensureOnly(argv, allowlist) ==
  LET hits == {k \in DOMAIN argv : argv[k] \notin allowlist /\ IsFlag(argv[k])}
  IN IF hits = {} THEN <<>>
     ELSE <<"flag not allowed here: " \o argv[FirstIndex(hits)]>>

(* ------------------------------ the tools ------------------------------ *)

LS_ALLOWED == {"-l", "-la", "-lah", "-1", "-A", "-F", "-p", "-R"}
TAR_ALLOWED == {"-t", "-f", "-v", "--list"}
allowedSub == {"status", "diff", "show", "log", "ls-files", "rev-parse",
               "branch", "tag", "remote", "blame", "cat-file", "describe"}
\* /^sha(1|224|256|384|512)sum$/
ShaSumRegex == {"sha1sum", "sha224sum", "sha256sum", "sha384sum", "sha512sum"}

safe_ls(args) ==
  LET e == ensureOnly(SelectSeq(args, IsFlag), LS_ALLOWED)
  IN IF e # <<>> THEN Throw(e[1]) ELSE run("ls", args)

safe_stat(args) == run("stat", SelectSeq(args, LAMBDA a : ~StartsWith(a, "--")))

safe_sed(args) ==
  LET e == rejectForbidden(args)
  IN IF e # <<>> THEN Throw(e[1]) ELSE run("sed", args)

safe_sha_anytool(args) ==
  LET a == IF Len(args) > 0 THEN args ELSE <<"sha256sum">>
  IN run(Head(a), Tail(a))

safe_sha(args) ==
  LET a == IF Len(args) > 0 THEN args ELSE <<"sha256sum">>
      tool == Head(a)
      rest == Tail(a)
  IN IF tool \in ShaSumRegex THEN run(tool, rest)
     ELSE IF tool = "shasum" THEN run("shasum", rest)
     ELSE IF tool = "md5sum" \/ tool = "md5" THEN run(tool, rest)
     ELSE run("sha256sum", args)

safe_tar_list(args) ==
  LET e == ensureOnly(SelectSeq(args, IsFlag), TAR_ALLOWED)
  IN IF e # <<>> THEN Throw(e[1]) ELSE run("tar", args)

safe_unzip_list_inverted(args) ==
  IF Includes(args, "-l")
  THEN Throw("safe_unzip_list requires -l (list) mode")
  ELSE run("unzip", args)

safe_unzip_list(args) ==
  IF ~Includes(args, "-l")
  THEN Throw("safe_unzip_list requires -l (list) mode")
  ELSE run("unzip", args)

safe_find(args) ==
  LET e == rejectForbidden(args)
  IN IF e # <<>> THEN Throw(e[1]) ELSE run("find", args)

safe_git_any(args) ==
  LET sub == IF Len(args) > 0 /\ args[1] # "" THEN args[1] ELSE ""
  IN IF ~\E k \in DOMAIN args : args[k] \in allowedSub
     THEN Throw("git subcommand not allowed: " \o sub)
     ELSE run("git", args)

safe_git(args) ==
  LET sub == IF Len(args) > 0 /\ args[1] # "" THEN args[1] ELSE ""
  IN IF sub \notin allowedSub
     THEN Throw("git subcommand not allowed: " \o sub)
     ELSE run("git", args)

\* the tools that hand their arguments to run() as they are: name -> command
PassThrough ==
  (  "safe_file" :> "file" @@
     "safe_cat" :> "cat" @@
     "safe_head" :> "head" @@
     "safe_tail" :> "tail" @@
     "safe_less" :> "less" @@
     "safe_more" :> "more" @@
     "safe_grep" :> "grep" @@
     "safe_awk" :> "awk" @@
     "safe_cut" :> "cut" @@
     "safe_paste" :> "paste" @@
     "safe_tr" :> "tr" @@
     "safe_sort" :> "sort" @@
     "safe_uniq" :> "uniq" @@
     "safe_fmt" :> "fmt" @@
     "safe_fold" :> "fold" @@
     "safe_column" :> "column" @@
     "safe_wc" :> "wc" @@
     "safe_cksum" :> "cksum" @@
     "safe_zipinfo" :> "zipinfo" @@
     "safe_du" :> "du" @@
     "safe_df" :> "df" @@
     "safe_env" :> "env" @@
     "safe_uname" :> "uname" @@
     "safe_date" :> "date" @@
     "safe_ps" :> "ps" @@
     "safe_jq" :> "jq" @@
     "safe_yq" :> "yq" @@
     "safe_hexdump" :> "hexdump" @@
     "safe_xxd" :> "xxd" @@
     "safe_od" :> "od" @@
     "safe_tree" :> "tree" )

\* the tools that take no arguments: name -> command
NoArgs ==
  (  "safe_pwd" :> "pwd" @@
     "safe_id" :> "id" @@
     "safe_uptime" :> "uptime" @@
     "safe_sw_vers" :> "sw_vers" )

\* Object.keys(tools), in the order of the table
ToolKeys ==
  <<"safe_ls", "safe_pwd", "safe_stat", "safe_file",
    "safe_cat", "safe_head", "safe_tail", "safe_less", "safe_more",
    "safe_grep", "safe_awk", "safe_sed",
    "safe_cut", "safe_paste", "safe_tr", "safe_sort", "safe_uniq",
    "safe_fmt", "safe_fold", "safe_column",
    "safe_wc", "safe_cksum", "safe_sha",
    "safe_tar_list", "safe_zipinfo", "safe_unzip_list",
    "safe_du", "safe_df",
    "safe_env", "safe_id", "safe_uname", "safe_date", "safe_ps",
    "safe_uptime",
    "safe_find", "safe_git", "safe_jq", "safe_yq",
    "safe_hexdump", "safe_xxd", "safe_od", "safe_tree", "safe_sw_vers">>

ToolNames == {ToolKeys[k] : k \in DOMAIN ToolKeys}

\* tools[name](args) for an own key of the table
tools(name, args) ==
  CASE name = "safe_ls" -> safe_ls(args)
    [] name = "safe_stat" -> safe_stat(args)
    [] name = "safe_sed" -> safe_sed(args)
    [] name = "safe_sha" -> safe_sha(args)
    [] name = "safe_tar_list" -> safe_tar_list(args)
    [] name = "safe_unzip_list" -> safe_unzip_list(args)
    [] name = "safe_find" -> safe_find(args)
    [] name = "safe_git" -> safe_git(args)
    [] name \in DOMAIN NoArgs -> run(NoArgs[name], <<>>)
    [] name \in DOMAIN PassThrough -> run(PassThrough[name], args)

\* tools is an object literal: a name that is no own key is looked up on
\* Object.prototype.  Called with this = undefined, toString returns a string
\* and constructor (Object) returns its argument; the other methods throw a
\* TypeError, and __proto__ is an object, so calling it throws a TypeError.
InheritedReturning == {"constructor", "toString"}
InheritedThrowing == {"__proto__", "hasOwnProperty", "isPrototypeOf",
                      "propertyIsEnumerable", "toLocaleString", "valueOf",
                      "__defineGetter__", "__defineSetter__",
                      "__lookupGetter__", "__lookupSetter__"}

\* fn = tools[name]; "undefined" when !fn, else what await fn(args) does
CallTool(name, args) ==
  IF name \in ToolNames THEN tools(name, args)
  ELSE IF name \in InheritedReturning THEN Value
  ELSE IF name \in InheritedThrowing THEN Throw("TypeError")
  ELSE [t |-> "undefined", cmd |-> "", args |-> <<>>, msg |-> ""]

(* --------------------------- the stdio loop ---------------------------- *)

NL == [kind |-> "nl", id |-> 0, method |-> "", name |-> "", hasArgs |-> FALSE,
       args |-> <<>>]

\* a line body before it is given its identifier
Body(kind, method, name, hasArgs, args) ==
  [kind |-> kind, id |-> 0, method |-> method, name |-> name,
   hasArgs |-> hasArgs, args |-> args]

\* buf.indexOf("\n"), 1-based; 0 when there is none
indexOfNL(b) ==
  LET hits == {k \in DOMAIN b : b[k].kind = "nl"}
  IN IF hits = {} THEN 0 ELSE CHOOSE k \in hits : \A j \in hits : k <= j

\* reply(id, result, error): one line written to STDOUT
reply(id, shape, body) ==
  [id |-> id, error |-> FALSE, shape |-> shape, body |-> body]
replyError(id, message) ==
  [id |-> id, error |-> TRUE, shape |-> "error", body |-> <<message>>]

\* ({ args = [] }) of fn(args || {})
argsOf(msg) == IF msg.hasArgs THEN msg.args ELSE <<>>

\* The while loop of the handler, from its condition on, over the shared
\* buf.  st = [buf, out, procs, fault]; the result is the state in which the
\* handler returns, suspends on a spawned child, or throws (fault).
RECURSIVE Loop(_)
Loop(st) ==
  LET idx == indexOfNL(st.buf) IN
  IF idx = 0 THEN st
  ELSE
    LET line == SubSeq(st.buf, 1, idx - 1)
        s1 == [st EXCEPT !.buf = SubSeq(st.buf, idx + 1, Len(st.buf))]
        msg == line[1]
    IN
    IF line = <<>> \/ msg.kind = "blank" THEN Loop(s1)
    ELSE IF Len(line) > 1 \/ msg.kind = "garbage" THEN Loop(s1)
    ELSE IF msg.kind = "null" THEN [s1 EXCEPT !.fault = TRUE]
    ELSE IF msg.method = "initialize"
      THEN Loop([s1 EXCEPT !.out = Append(@, reply(msg.id, "initialize", ToolKeys))])
    ELSE IF msg.method = "tools/list"
      THEN Loop([s1 EXCEPT !.out = Append(@, reply(msg.id, "list", ToolKeys))])
    ELSE IF msg.method = "tools/call"
      THEN LET r == CallTool(msg.name, argsOf(msg)) IN
           CASE r.t = "undefined" ->
                  [s1 EXCEPT !.out = Append(@, replyError(msg.id, "unknown tool"))]
             [] r.t = "throw" ->
                  Loop([s1 EXCEPT !.out = Append(@, replyError(msg.id, r.msg))])
             [] r.t = "value" ->
                  Loop([s1 EXCEPT !.out = Append(@, reply(msg.id, "noout", <<>>))])
             [] r.t = "run" ->
                  [s1 EXCEPT !.procs = Append(@,
                     [id |-> msg.id, cmd |-> r.cmd, args |-> r.args,
                      state |-> "running"])]
    ELSE Loop([s1 EXCEPT !.out = Append(@, reply(msg.id, "ok", <<>>))])

(* ------------------------------ the events ----------------------------- *)

Resume(st) ==
  /\ buf' = st.buf
  /\ out' = st.out
  /\ procs' = st.procs
  \* a throw out of the async handler is an unhandled rejection: it ends the
  \* process or is only reported, as the runtime is configured
  /\ crashed' \in (IF st.fault THEN BOOLEAN ELSE {FALSE})

\* STDIN.on("data", async (chunk) => ...): bodies are the line bodies in chunk
OnData(chunk, bodies) ==
  /\ ~crashed
  /\ received' = received \o bodies
  /\ Resume(Loop([buf |-> buf \o chunk, out |-> out, procs |-> procs,
                  fault |-> FALSE]))

\* p.on("close", code) of the child that request procs[i].id awaits, and the
\* rest of the handler that awaited it
ChildClose(i, code) ==
  /\ ~crashed
  /\ procs[i].state = "running"
  /\ UNCHANGED received
  /\ LET done == [procs EXCEPT ![i].state = IF code = 0 THEN "exit0" ELSE "exitN"]
         r == IF code = 0 THEN reply(procs[i].id, "stdout", <<>>)
              ELSE replyError(procs[i].id, "stderr or exit code")
     IN Resume(Loop([buf |-> buf, out |-> Append(out, r), procs |-> done,
                     fault |-> FALSE]))

\* p.on("error"): the executable could not be started
ChildError(i) ==
  /\ ~crashed
  /\ procs[i].state = "running"
  /\ UNCHANGED received
  /\ Resume(Loop([buf |-> buf,
                  out |-> Append(out, replyError(procs[i].id, "spawn error")),
                  procs |-> [procs EXCEPT ![i].state = "launchfail"],
                  fault |-> FALSE]))

Init ==
  /\ buf = <<>>
  /\ out = <<>>
  /\ procs = <<>>
  /\ crashed = FALSE
  /\ received = <<>>

(* ------------------------------ the inputs ----------------------------- *)

Stamp(b, i) == [b EXCEPT !.id = i]

\* the pieces of the lines bs; the last line lacks its newline unless complete
RECURSIVE Pieces(_, _)
Pieces(bs, complete) ==
  IF bs = <<>> THEN <<>>
  ELSE IF Len(bs) = 1 THEN (IF complete THEN <<bs[1], NL>> ELSE <<bs[1]>>)
  ELSE <<bs[1], NL>> \o Pieces(Tail(bs), complete)

Call(name, args) == Body("msg", "tools/call", name, TRUE, args)

\* the request lines of Spec: one of each path through the handler
LoopRequests ==
  { Body("msg", "initialize", "", FALSE, <<>>),
    Body("msg", "tools/list", "", FALSE, <<>>),
    Body("msg", "ping", "", FALSE, <<>>),
    Call("safe_pwd", <<>>),
    Call("safe_ls", <<"--unsafe-flag">>),
    Call("rm", <<"-rf">>),
    Body("garbage", "", "", FALSE, <<>>),
    Body("null", "", "", FALSE, <<>>),
    Body("blank", "", "", FALSE, <<>>) }

\* the next chunk of stdin: the newline of a body that is waiting for it, up
\* to MaxLines lines in all, the last of them with or without its newline
Data ==
  \E m \in 0..(MaxLines - Len(received)) :
    \E f \in [1..m -> LoopRequests] :
      \E complete \in BOOLEAN :
        LET bs == [k \in 1..m |-> Stamp(f[k], Len(received) + k)]
            pending == buf # <<>> /\ buf[Len(buf)].kind # "nl"
            chunk == (IF pending THEN <<NL>> ELSE <<>>) \o Pieces(bs, complete)
        IN /\ chunk # <<>>
           /\ (m = 0 => complete)
           /\ OnData(chunk, bs)

Close == \E i \in DOMAIN procs : \E code \in {0, 1} : ChildClose(i, code)

Error == \E i \in DOMAIN procs : ChildError(i)

Next == Data \/ Close \/ Error

Spec == Init /\ [][Next]_vars

\* the argument tokens of SpecDispatch
Tokens ==
  {"-l", "-R", "-t", "--list", "--unsafe-flag", "-", "-exec", "-ok",
   "-delete", "-i", "--in-place", "file.txt", "", "status", "push",
   "sha1sum", "shasum", "md5", "rm"}

ArgVectors == UNION {[1..n -> Tokens] : n \in 0..MaxArgs}

CallNames ==
  ToolNames \cup {"rm", "toString", "constructor", "hasOwnProperty", "__proto__"}

CallRequests ==
  {Call(n, a) : n \in CallNames, a \in ArgVectors}
    \cup {Body("msg", "tools/call", n, FALSE, <<>>) : n \in CallNames}

\* one tools/call line, whole, on an idle gateway
DataCall ==
  /\ received = <<>>
  /\ \E b \in CallRequests :
       OnData(<<Stamp(b, 1), NL>>, <<Stamp(b, 1)>>)

NextDispatch == DataCall \/ Close \/ Error

SpecDispatch == Init /\ [][NextDispatch]_vars

(* ------------------------------ properties ----------------------------- *)

Request(i) == received[i]
IsCall(r) == r.kind = "msg" /\ r.method = "tools/call"
Responses(i) == {k \in DOMAIN out : out[k].id = i}
Spawned(i) == {k \in DOMAIN procs : procs[k].id = i}
Running == {k \in DOMAIN procs : procs[k].state = "running"}
\* the line of request i has been taken out of buf
Consumed(i) == ~\E k \in DOMAIN buf : buf[k].id = i
\* the newline of request i has arrived
CompleteLine(i) == Consumed(i) \/ \E k \in DOMAIN buf : buf[k].id = i /\ k < Len(buf)
\* request i was refused: an error response and no child process
Refused(i) ==
  /\ Spawned(i) = {}
  /\ Responses(i) # {}
  /\ \A k \in Responses(i) : out[k].error

C1_Allowed(name) ==
  IF name = "safe_ls" THEN {"-l", "-la", "-lah", "-1", "-A", "-F", "-p", "-R"}
  ELSE {"-t", "-f", "-v", "--list"}

\* C1: a safe_ls or safe_tar_list call whose vector holds a token that begins
\* with "-" and is outside the operation's allowed set is answered with an
\* error and spawns nothing; a call without such a token is not refused: its
\* command is spawned with the vector.
C1_AllowlistRejects ==
  \A i \in DOMAIN received :
    LET r == Request(i)
        a == argsOf(r)
        bad == {k \in DOMAIN a : StartsWith(a[k], "-") /\ a[k] \notin C1_Allowed(r.name)}
    IN (IsCall(r) /\ r.name \in {"safe_ls", "safe_tar_list"} /\ Consumed(i)) =>
         IF bad # {} THEN Refused(i)
         ELSE \E k \in Spawned(i) : procs[k].args = a

C1_Witness ==
  \E i \in DOMAIN received :
    /\ IsCall(Request(i)) /\ Request(i).name = "safe_ls"
    /\ argsOf(Request(i)) = <<"-l", "--unsafe-flag">>
    /\ Refused(i)

C2_Forbidden == {"-exec", "-ok", "-delete", "-i", "--in-place"}

\* C2: a safe_find or safe_sed call whose vector holds one of -exec, -ok,
\* -delete, -i, --in-place at any position is answered with an error whose
\* message names the first such token, and spawns nothing.
C2_DenylistRejects ==
  \A i \in DOMAIN received :
    LET r == Request(i)
        a == argsOf(r)
        forb == {k \in DOMAIN a : a[k] \in C2_Forbidden}
    IN (IsCall(r) /\ r.name \in {"safe_find", "safe_sed"} /\ Consumed(i)
          /\ forb # {}) =>
         /\ Refused(i)
         /\ \A k \in Responses(i) :
              out[k].body = <<"forbidden argument: " \o a[FirstIndex(forb)]>>

C2_Witness ==
  \E i \in DOMAIN received :
    /\ IsCall(Request(i)) /\ Request(i).name = "safe_find"
    /\ argsOf(Request(i)) = <<"file.txt", "-exec">>
    /\ Refused(i)

\* the tokens an operation's policy names as safe: the two flag allowlists and
\* the listing flag; operands (tokens that are no flags) are data
C3_Recognised(name) ==
  CASE name \in {"safe_ls", "safe_tar_list"} -> C1_Allowed(name)
    [] name = "safe_unzip_list" -> {"-l"}
    [] OTHER -> {}

\* C3: every operation validates by a closed rule: no command is spawned with
\* a caller-supplied flag (a token that begins with "-" and is longer than
\* that) that the operation's policy does not name as safe.
C3_ClosedValidation ==
  \A k \in DOMAIN procs :
    \A j \in DOMAIN procs[k].args :
      (StartsWith(procs[k].args[j], "-") /\ Len(procs[k].args[j]) > 1) =>
        procs[k].args[j] \in C3_Recognised(Request(procs[k].id).name)

C4_Subs == {"status", "diff", "show", "log", "ls-files", "rev-parse", "branch",
            "tag", "remote", "blame", "cat-file", "describe"}

\* C4: safe_git spawns git, with the vector, exactly when the first element of
\* the vector is an enumerated sub-command; every other call (another first
\* element, the empty string, an empty or absent vector) is answered with an
\* error that names the rejected sub-command and spawns nothing.
C4_GitSubcommands ==
  \A i \in DOMAIN received :
    LET r == Request(i)
        a == argsOf(r)
        first == IF a = <<>> THEN "" ELSE a[1]
    IN (IsCall(r) /\ r.name = "safe_git" /\ Consumed(i)) =>
         IF first \in C4_Subs
         THEN \E k \in Spawned(i) : procs[k].cmd = "git" /\ procs[k].args = a
         ELSE /\ Refused(i)
              /\ \A k \in Responses(i) :
                   out[k].body = <<"git subcommand not allowed: " \o first>>

C4_Witness ==
  \E i \in DOMAIN received :
    /\ IsCall(Request(i)) /\ Request(i).name = "safe_git"
    /\ argsOf(Request(i)) = <<"push", "status">>
    /\ Refused(i)

\* C5: a safe_unzip_list call whose vector lacks the token -l is answered with
\* an error and spawns nothing; unzip is spawned only with a vector that
\* holds -l.
C5_UnzipRequiresList ==
  /\ \A i \in DOMAIN received :
       LET r == Request(i)
           a == argsOf(r)
       IN (IsCall(r) /\ r.name = "safe_unzip_list" /\ Consumed(i)
             /\ ~\E k \in DOMAIN a : a[k] = "-l") => Refused(i)
  /\ \A k \in DOMAIN procs :
       procs[k].cmd = "unzip" => \E j \in DOMAIN procs[k].args : procs[k].args[j] = "-l"

C5_Witness ==
  \E i \in DOMAIN received :
    /\ IsCall(Request(i)) /\ Request(i).name = "safe_unzip_list"
    /\ argsOf(Request(i)) = <<"-t", "file.txt">>
    /\ Refused(i)

\* C6: a tools/call whose name is not in the announced catalogue is answered
\* with an error and spawns nothing; it is never answered with a result.
C6_UnknownOperationRefused ==
  \A i \in DOMAIN received :
    (IsCall(Request(i)) /\ Request(i).name \notin ToolNames /\ Consumed(i)) =>
      Refused(i)

\* C7: the response to a tools/call is an error exactly when no command was
\* spawned for it or the command did not exit with status 0; a result carries
\* the stdout of a command that exited with status 0.
C7_ErrorIffNotRunOrFailed ==
  \A k \in DOMAIN out :
    IsCall(Request(out[k].id)) =>
      LET ok == \E p \in Spawned(out[k].id) : procs[p].state = "exit0"
      IN /\ out[k].error <=> ~ok
         /\ ~out[k].error => out[k].shape = "stdout"

\* the handler never throws out of its loop
C8_NoFault == ~crashed

\* when no handler is waiting for a child, every request whose line has
\* arrived whole has been answered with its identifier
C8_NoStall ==
  Running = {} =>
    \A i \in DOMAIN received :
      (Request(i).kind = "msg" /\ CompleteLine(i)) => Responses(i) # {}

\* C8: the loop never ends in an unhandled fault, and no request whose line
\* has arrived whole waits for more input: once no handler is waiting for a
\* child, each has been answered with its identifier.
C8_NoStallNoFault == C8_NoFault /\ C8_NoStall

\* C9: at most one child process runs at any time, and the responses are
\* written in the order in which their request lines arrived.
C9_SerialInOrder ==
  /\ Cardinality(Running) <= 1
  /\ \A j, k \in DOMAIN out : j < k => out[j].id < out[k].id

C10_Sha == {"sha1sum", "sha224sum", "sha256sum", "sha384sum", "sha512sum",
            "shasum", "md5sum", "md5"}

\* the command an operation is named after
C10_Fixed(name) ==
  CASE name = "safe_tar_list" -> "tar"
    [] name = "safe_unzip_list" -> "unzip"
    [] OTHER -> SubSeq(name, 6, Len(name))

====
